---- MODULE Spec2Model ----
(***************************************************************************)
(* Model of the social profile scraper: scraper.py (business-name mode)    *)
(* and city_scraper.py (city mode).                                         *)
(*                                                                          *)
(* Strings that the program parses (URLs, usernames, field values) are      *)
(* sequences of tokens: "/" ":" "?" "#" are the delimiter characters, every *)
(* other token is an unbroken run of other characters.  The empty string is *)
(* the empty sequence.                                                      *)
(***************************************************************************)
EXTENDS Integers, Sequences, FiniteSets, TLC

VARIABLES
    mode,        \* which entry point runs: "city" or "business"
    pc,          \* position of the run
    proxy,       \* proxies installed on the Instagram loader's session (0: none)
    direct,      \* some outbound call was made without a proxy
    ti,          \* index of the current query term (keyword / business)
    pi,          \* index of the current platform
    results,     \* search_social_links: the backend's raw hits
    discovered,  \* discover_profiles: concatenated per-term results
    found,       \* discover_profiles: the per-term results, in term order
    urls,        \* the list the dispatch loop iterates
    idx,         \* position of the dispatch loop in urls
    rows,        \* rows / all_rows: the accumulated records
    calls,       \* history: every extractor invocation, in order
    sleeps,      \* history: every time.sleep, with the number of calls before it
    queue,       \* history: every URL handed to a dispatch loop, in order
    written      \* the tables written to the output file, in order

vars == <<mode, pc, proxy, direct, ti, pi, results, discovered, found, urls,
          idx, rows, calls, sleeps, queue, written>>

----------------------------------------------------------------------------
(* Bounds and program constants *)

MaxResults == 2

NumProxies == 10

CooldownSecs == 300

proxy_links == 1 .. NumProxies

NoProxy == 0

platforms == <<"instagram.com", "facebook.com">>

\* the query terms of a run: --keywords in city mode, --businesses otherwise
Terms == <<"t1", "t2">>

NumTerms == Len(Terms)

----------------------------------------------------------------------------
(* Strings *)

Delims == {":", "/", "?", "#"}

\* tokens holding a character that may not occur in a URL scheme
NonSchemeTokens == Delims \cup {"hl=en", "u=instagram.com"}

\* first index >= from of a token of toks in s, Len(s) + 1 when there is none
IndexOf(s, toks, from) ==
    IF \E i \in from .. Len(s) : s[i] \in toks
    THEN CHOOSE i \in from .. Len(s) :
             s[i] \in toks /\ \A j \in from .. (i - 1) : s[j] \notin toks
    ELSE Len(s) + 1

\* s cut at its first tok: what is before it and what is after it
split_at(s, tok) ==
    LET i == IndexOf(s, {tok}, 1)
    IN  [head |-> SubSeq(s, 1, i - 1), tail |-> SubSeq(s, i + 1, Len(s))]

\* the scheme is what stands before the first ":", if it has scheme characters only
split_scheme(url) ==
    LET c == IndexOf(url, {":"}, 1)
    IN  IF c > 1 /\ c <= Len(url)
           /\ \A j \in 1 .. (c - 1) : url[j] \notin NonSchemeTokens
        THEN [scheme |-> SubSeq(url, 1, c - 1), rest |-> SubSeq(url, c + 1, Len(url))]
        ELSE [scheme |-> <<>>, rest |-> url]

\* the netloc follows "//" and ends at the next "/", "?" or "#"
split_netloc(rest) ==
    IF Len(rest) >= 2 /\ rest[1] = "/" /\ rest[2] = "/"
    THEN LET e == IndexOf(rest, {"/", "?", "#"}, 3)
         IN  [netloc |-> SubSeq(rest, 3, e - 1), rest |-> SubSeq(rest, e, Len(rest))]
    ELSE [netloc |-> <<>>, rest |-> rest]

parse_query(scheme, netloc, fragment, qs) ==
    [scheme |-> scheme, netloc |-> netloc, path |-> qs.head, query |-> qs.tail,
     fragment |-> fragment]

parse_fragment(scheme, netloc, fr) ==
    parse_query(scheme, netloc, fr.tail, split_at(fr.head, "?"))

parse_netloc(scheme, n) == parse_fragment(scheme, n.netloc, split_at(n.rest, "#"))

parse_scheme(s) == parse_netloc(s.scheme, split_netloc(s.rest))

\* urllib.parse.urlparse: scheme, netloc, then fragment and query are cut off
urlparse(url) == parse_scheme(split_scheme(url))

RECURSIVE rstrip(_)
rstrip(s) ==
    IF s = <<>> \/ s[Len(s)] # "/" THEN s
    ELSE rstrip(SubSeq(s, 1, Len(s) - 1))

----------------------------------------------------------------------------
(* scraper.py: link discovery *)

\* a raw hit of the search backend: its "href" and "url" fields, <<>> when
\* the field is missing or empty
Hit(href, url) == [href |-> href, url |-> url]

\* r.get("href") or r.get("url") or ""
HitUrl(r) == IF r.href # <<>> THEN r.href ELSE r.url

\* the tokens that hold the platform's domain as a substring
TokensWith(platform) ==
    IF platform = "instagram.com"
    THEN {"instagram.com", "www.instagram.com", "u=instagram.com"}
    ELSE {"facebook.com", "www.facebook.com"}

\* platform in url: a substring test on the whole raw URL
PlatformIn(platform, url) ==
    \E i \in 1 .. Len(url) : url[i] \in TokensWith(platform)

\* f"{parsed.scheme}://{parsed.netloc}{parsed.path}".rstrip("/")
\* faulty variant: the trailing slashes are kept
format_url_keep_slash(parsed) ==
    parsed.scheme \o <<":", "/", "/">> \o parsed.netloc \o parsed.path

format_url(parsed) ==
    rstrip(parsed.scheme \o <<":", "/", "/">> \o parsed.netloc \o parsed.path)

cleaned(url) == format_url(urlparse(url))

\* the loop over results: filter by platform, normalise, keep the order
RECURSIVE collect(_, _)
collect(rs, platform) ==
    IF rs = <<>> THEN <<>>
    ELSE LET url == HitUrl(Head(rs))
         IN  (IF PlatformIn(platform, url) THEN <<cleaned(url)>> ELSE <<>>)
             \o collect(Tail(rs), platform)

\* the seen / unique_urls loop of search_social_links
RECURSIVE unique_from(_, _, _)
unique_from(us, seen, out) ==
    IF us = <<>> THEN out
    ELSE IF Head(us) \notin seen
         THEN unique_from(Tail(us), seen \cup {Head(us)}, Append(out, Head(us)))
         ELSE unique_from(Tail(us), seen, out)

\* faulty variant: no deduplication within one search
unique_urls_keep_all(us) == us

unique_urls(us) == unique_from(us, {}, <<>>)

search_social_links(rs, platform) == unique_urls(collect(rs, platform))

\* the query sent to the backend
query(term, platform) ==
    <<term, IF platform = "instagram.com" THEN "instagram" ELSE "facebook", platform>>

\* the first token of path at or after from that is not "/", Len(path) + 1 if none
first_part(path, from) ==
    IF \E i \in from .. Len(path) : path[i] # "/"
    THEN CHOOSE i \in from .. Len(path) :
             path[i] # "/" /\ \A j \in from .. (i - 1) : path[j] = "/"
    ELSE Len(path) + 1

part_from(path, a) == SubSeq(path, a, IndexOf(path, {"/"}, a) - 1)

\* parts = [p for p in path.split("/") if p]; parts[0] if parts else ""
first_segment(path) == part_from(path, first_part(path, 1))

ensure_username_from_url(url) == first_segment(urlparse(url).path)

----------------------------------------------------------------------------
(* city_scraper.py: aggregation over the query terms *)

\* the seen / unique_urls loop of discover_profiles
RECURSIVE first_seen(_, _, _)
first_seen(us, seen, out) ==
    IF us = <<>> THEN out
    ELSE IF Head(us) \notin seen
         THEN first_seen(Tail(us), seen \cup {Head(us)}, Append(out, Head(us)))
         ELSE first_seen(Tail(us), seen, out)

discover_unique(us) == first_seen(us, {}, <<>>)

\* faulty variant: the later terms' results come first
extend_front(acc, us) == us \o acc

\* discovered.extend(urls)
extend(acc, us) == acc \o us

----------------------------------------------------------------------------
(* scraper.py: extraction and export *)

Text(t) == <<t>>

extract_instagram_data(username) ==
    [platform     |-> Text("instagram"),
     username     |-> username,
     full_name    |-> Text("name"),
     followers    |-> Text("n"),
     following    |-> Text("n"),
     posts        |-> Text("n"),
     url          |-> <<"https", ":", "/", "/", "www.instagram.com", "/">>
                          \o username \o <<"/">>,
     bio          |-> <<>>,
     external_url |-> <<>>]

extract_facebook_data(username) ==
    [platform  |-> Text("facebook"),
     username  |-> username,
     full_name |-> Text("name"),
     followers |-> Text("n"),
     category  |-> <<>>,
     url       |-> <<"https", ":", "/", "/", "www.facebook.com", "/">> \o username,
     about     |-> <<>>,
     website   |-> <<>>,
     email     |-> <<>>,
     phone     |-> <<>>,
     city      |-> <<>>]

\* the field names of the two record shapes, in the order str compares them
FieldOrder ==
    <<"about", "bio", "category", "city", "email", "external_url", "followers",
      "following", "full_name", "phone", "platform", "posts", "url", "username",
      "website">>

Rank(k) == CHOOSE i \in 1 .. Len(FieldOrder) : FieldOrder[i] = k

\* str.__lt__ on field names
StrLess(a, b) == Rank(a) < Rank(b)

RECURSIVE sorted(_)
sorted(S) ==
    IF S = {} THEN <<>>
    ELSE LET m == CHOOSE x \in S : \A y \in S : x = y \/ StrLess(x, y)
         IN  <<m>> \o sorted(S \ {m})

\* {k for row in rows for k in row.keys()}
keys_of(rs) == UNION {DOMAIN rs[i] : i \in 1 .. Len(rs)}

\* faulty variant: the header is taken from the first row alone
fieldnames_first_row(rs) == sorted(DOMAIN rs[1])

fieldnames(rs) == sorted(keys_of(rs))

\* csv.DictWriter.writerow: a missing field is written as restval = ""
writerow(row, names) ==
    [k \in 1 .. Len(names) |-> IF names[k] \in DOMAIN row THEN row[names[k]] ELSE <<>>]

\* faulty variant: the file is written even when there are no rows
save_to_csv_always(rs, files) ==
    Append(files,
           [header |-> sorted(keys_of(rs)),
            body   |-> [i \in 1 .. Len(rs) |-> writerow(rs[i], sorted(keys_of(rs)))]])

\* the table save_to_csv writes; the file is opened only when rows is not empty
save_to_csv(rs, files) ==
    IF rs = <<>> THEN files
    ELSE Append(files,
                [header |-> fieldnames(rs),
                 body   |-> [i \in 1 .. Len(rs) |-> writerow(rs[i], fieldnames(rs))]])

----------------------------------------------------------------------------
(* The environment: what the search backend and the extractors may answer *)

Url(scheme, host, path) == <<scheme, ":", "/", "/", host>> \o path

\* the raw hits the backend may return for a platform
Web(platform) ==
    IF platform = "instagram.com"
    THEN {Hit(Url("https", "www.instagram.com", <<"/", "joe", "/">>), <<>>),
          Hit(Url("https", "www.instagram.com", <<"/", "joe", "?", "hl=en">>), <<>>),
          Hit(<<>>, Url("https", "www.instagram.com", <<"/", "bob">>)),
          Hit(Url("https", "www.instagram.com", <<"/">>), <<>>)}
    ELSE {Hit(Url("https", "www.facebook.com", <<"/", "joe">>), <<>>),
          Hit(Url("https", "example.com", <<"/", "joe">>), <<>>)}

\* every list of at most MaxResults hits
Responses(S) == UNION {[1 .. n -> S] : n \in 0 .. MaxResults}

\* DDGS().text(query, max_results=max_results) or []
DDGS_text(q, max_results) == Responses(Web(q[3]))

\* how an extractor call may end
Outcomes(platform) ==
    IF platform = "instagram.com" THEN {"ok", "ratelimit", "fail"} ELSE {"ok", "fail"}

----------------------------------------------------------------------------
(* The run *)

Init ==
    /\ mode \in {"city", "business"}
    /\ pc = "start"
    /\ proxy = NoProxy
    /\ direct = FALSE
    /\ ti = 1
    /\ pi = 1
    /\ results = <<>>
    /\ discovered = <<>>
    /\ found = <<>>
    /\ urls = <<>>
    /\ idx = 1
    /\ rows = <<>>
    /\ calls = <<>>
    /\ sleeps = <<>>
    /\ queue = <<>>
    /\ written = <<>>

\* the proxy an outbound call of the Instagram loader goes through
LoaderVia == proxy

\* scrape_city up to the platform loop: loader, random proxy, optional login.
\* loader.login is an outbound call of the loader's session; whether it
\* succeeds changes nothing the run reads afterwards.
ScrapeCitySetup ==
    /\ pc = "start" /\ mode = "city"
    /\ \E p \in proxy_links, creds \in BOOLEAN :
          /\ proxy' = p
          /\ direct' = (direct \/ (creds /\ p = NoProxy))
    /\ pc' = "search"
    /\ UNCHANGED <<mode, ti, pi, results, discovered, found, urls, idx, rows,
                   calls, sleeps, queue, written>>

\* main up to the business loop: loader, optional login
MainSetup ==
    /\ pc = "start" /\ mode = "business"
    /\ \E creds \in BOOLEAN : direct' = (direct \/ (creds /\ LoaderVia = NoProxy))
    /\ pc' = "search"
    /\ UNCHANGED <<mode, proxy, ti, pi, results, discovered, found, urls, idx,
                   rows, calls, sleeps, queue, written>>

\* search_social_links, the backend call: DDGS() is built without a proxy;
\* an exception of the call is caught nowhere and ends the run
SearchCall ==
    /\ pc = "search"
    /\ direct' = TRUE
    /\ \/ \E rs \in DDGS_text(query(Terms[ti], platforms[pi]), MaxResults) :
             /\ results' = rs
             /\ pc' = "searched"
       \/ /\ results' = <<>>
          /\ pc' = "crashed"
    /\ UNCHANGED <<mode, proxy, ti, pi, discovered, found, urls, idx, rows,
                   calls, sleeps, queue, written>>

\* the term of the dispatch batch: city mode dispatches once per platform
BatchTerm == IF mode = "city" THEN 0 ELSE ti

Entries(us) ==
    [i \in 1 .. Len(us) |-> [term |-> BatchTerm, platform |-> platforms[pi], url |-> us[i]]]

\* where the run goes when a dispatch loop ends
Advance(m, t, p) ==
    IF p < Len(platforms)
    THEN [pc |-> "search", ti |-> IF m = "city" THEN 1 ELSE t, pi |-> p + 1]
    ELSE IF m = "business" /\ t < NumTerms
         THEN [pc |-> "search", ti |-> t + 1, pi |-> 1]
         ELSE [pc |-> "export", ti |-> t, pi |-> p]

\* the dispatch loop starts on us
StartDispatch(us) ==
    /\ urls' = us
    /\ idx' = 1
    /\ queue' = queue \o Entries(us)
    /\ IF us # <<>>
       THEN pc' = "dispatch" /\ UNCHANGED <<ti, pi>>
       ELSE LET n == Advance(mode, ti, pi)
            IN  pc' = n.pc /\ ti' = n.ti /\ pi' = n.pi

\* search_social_links, the rest: city mode extends discovered and goes on to
\* the next keyword, business mode dispatches the result
SearchReturn ==
    /\ pc = "searched"
    /\ LET us == search_social_links(results, platforms[pi])
       IN  IF mode = "city"
           THEN /\ discovered' = extend(discovered, us)
                /\ found' = Append(found, us)
                /\ IF ti < NumTerms
                   THEN ti' = ti + 1 /\ pc' = "search"
                   ELSE ti' = ti /\ pc' = "dedup"
                /\ UNCHANGED <<pi, urls, idx, queue>>
           ELSE /\ StartDispatch(us)
                /\ UNCHANGED <<discovered, found>>
    /\ results' = <<>>
    /\ UNCHANGED <<mode, proxy, direct, rows, calls, sleeps, written>>

\* discover_profiles, after the keyword loop: dedup and return to scrape_city
DiscoverReturn ==
    /\ pc = "dedup"
    /\ StartDispatch(discover_unique(discovered))
    /\ discovered' = <<>>
    /\ found' = <<>>
    /\ UNCHANGED <<mode, proxy, direct, results, rows, calls, sleeps, written>>

\* what the extractor returns when it does not raise
extract(platform, username) ==
    IF platform = "instagram.com"
    THEN extract_instagram_data(username)
    ELSE extract_facebook_data(username)

\* faulty variant: the rate-limit signal is handled like any other failure
city_handle_no_cooldown(platform, result, data) ==
    IF result = "ok" THEN [append |-> <<data>>, sleep |-> <<>>]
    ELSE [append |-> <<>>, sleep |-> <<>>]

\* scrape_city's try blocks around one extraction: the records to append and
\* the seconds slept
city_handle(platform, result, data) ==
    IF result = "ok" THEN [append |-> <<data>>, sleep |-> <<>>]
    ELSE IF platform = "instagram.com" /\ result = "ratelimit"
         THEN [append |-> <<>>, sleep |-> <<CooldownSecs>>]
         ELSE [append |-> <<>>, sleep |-> <<>>]

\* main's try block around one extraction
main_handle(platform, result, data) ==
    IF result = "ok" THEN [append |-> <<data>>, sleep |-> <<>>]
    ELSE [append |-> <<>>, sleep |-> <<>>]

\* faulty variant: an empty identifier is not skipped
skipped_never(username) == FALSE

\* if not username: continue
skipped(username) == username = <<>>

\* faulty variant: a failed extraction ends the loop over urls
NextUrl_break ==
    IF idx < Len(urls) /\ (calls' = calls \/ calls'[Len(calls')].result = "ok")
    THEN pc' = "dispatch" /\ idx' = idx + 1 /\ UNCHANGED <<ti, pi>>
    ELSE LET n == Advance(mode, ti, pi)
         IN  pc' = n.pc /\ ti' = n.ti /\ pi' = n.pi /\ idx' = idx + 1

\* the loop goes on to the next URL, or ends
NextUrl ==
    IF idx < Len(urls)
    THEN pc' = "dispatch" /\ idx' = idx + 1 /\ UNCHANGED <<ti, pi>>
    ELSE LET n == Advance(mode, ti, pi)
         IN  pc' = n.pc /\ ti' = n.ti /\ pi' = n.pi /\ idx' = idx + 1

\* the try block of the running entry point
handle(platform, result, data) ==
    IF mode = "city"
    THEN city_handle(platform, result, data)
    ELSE main_handle(platform, result, data)

\* the extractor was called for url and ended with result
Extracted(url, platform, username, result, did) ==
    /\ calls' = Append(calls,
                  [term |-> BatchTerm, platform |-> platform, url |-> url,
                   username |-> username, result |-> result])
    /\ rows' = rows \o did.append
    /\ sleeps' = sleeps \o
           [i \in 1 .. Len(did.sleep) |-> [after |-> Len(calls) + 1, secs |-> did.sleep[i]]]
    /\ direct' = (direct \/ platform # "instagram.com" \/ LoaderVia = NoProxy)

\* the body of the dispatch loop for url
Process(url, platform, username) ==
    IF skipped(username)
    THEN UNCHANGED <<rows, calls, sleeps, direct>>
    ELSE \E result \in Outcomes(platform) :
            Extracted(url, platform, username, result,
                      handle(platform, result, extract(platform, username)))

\* one iteration of a dispatch loop
Iteration ==
    /\ Process(urls[idx], platforms[pi], ensure_username_from_url(urls[idx]))
    /\ NextUrl
    /\ UNCHANGED <<mode, proxy, results, discovered, found, urls, queue, written>>

DispatchCity == pc = "dispatch" /\ mode = "city" /\ Iteration

DispatchMain == pc = "dispatch" /\ mode = "business" /\ Iteration

\* save_to_csv(rows, output), the last statement of both runs
Export ==
    /\ pc = "export"
    /\ written' = save_to_csv(rows, written)
    /\ pc' = "done"
    /\ UNCHANGED <<mode, proxy, direct, ti, pi, results, discovered, found, urls,
                   idx, rows, calls, sleeps, queue>>

Next ==
    \/ ScrapeCitySetup
    \/ MainSetup
    \/ SearchCall
    \/ SearchReturn
    \/ DiscoverReturn
    \/ DispatchCity
    \/ DispatchMain
    \/ Export

Spec == Init /\ [][Next]_vars

----------------------------------------------------------------------------
(* Link discovery on its own: search_social_links applied to any response   *)
(* of at most MaxResults hits over a wider set of raw URLs                   *)

Host(platform) ==
    IF platform = "instagram.com" THEN "www.instagram.com" ELSE "www.facebook.com"

RawPaths == {<<>>, <<"/">>, <<"/", "joe">>, <<"/", "joe", "/">>, <<"/", "joe", "/", "/">>}

RawTails == {<<>>, <<"?", "hl=en">>}

AllHits(platform) ==
    {Hit(Url(sc, Host(platform), p) \o t, <<>>) :
         sc \in {"http", "https"}, p \in RawPaths, t \in RawTails}
    \cup {Hit(Url("https", "example.com", <<"/", "joe", "?", "u=instagram.com">>), <<>>),
          Hit(<<>>, Url("https", "example.com", <<"/", "joe">>))}

InitNormalize ==
    /\ mode \in {"city", "business"}
    /\ pc = "searched"
    /\ proxy \in (IF mode = "city" THEN proxy_links ELSE {NoProxy})
    /\ direct = TRUE
    /\ ti = 1
    /\ pi \in 1 .. Len(platforms)
    /\ results \in Responses(AllHits(platforms[pi]))
    /\ discovered = <<>>
    /\ found = <<>>
    /\ urls = <<>>
    /\ idx = 1
    /\ rows = <<>>
    /\ calls = <<>>
    /\ sleeps = <<>>
    /\ queue = <<>>
    /\ written = <<>>

NextNormalize == SearchReturn

SpecNormalize == InitNormalize /\ [][NextNormalize]_vars

----------------------------------------------------------------------------
(* Properties *)

Range(s) == {s[i] : i \in 1 .. Len(s)}

HasIdentifier(e) == ensure_username_from_url(e.url) # <<>>

\* the queue entries whose loop iteration is over
Processed ==
    SubSeq(queue, 1,
           IF pc = "dispatch" THEN Len(queue) - (Len(urls) - idx + 1) ELSE Len(queue))

\* the records of the extractions of cs that succeeded, in order
RECURSIVE RowsOf(_)
RowsOf(cs) ==
    IF cs = <<>> THEN <<>>
    ELSE (IF Head(cs).result = "ok"
          THEN <<extract(Head(cs).platform, Head(cs).username)>>
          ELSE <<>>) \o RowsOf(Tail(cs))

\* cs without its k-th element
Without(cs, k) == SubSeq(cs, 1, k - 1) \o SubSeq(cs, k + 1, Len(cs))

SameBatchUrl(a, b) == a.term = b.term /\ a.platform = b.platform /\ a.url = b.url

\* the number of cooldowns of exactly CooldownSecs after the i-th extractor
\* call and before the next one
CooldownsAfter(i) ==
    Cardinality({k \in 1 .. Len(sleeps) :
                    sleeps[k].after = i /\ sleeps[k].secs = CooldownSecs})

\* C1: failure isolation in both dispatch loops.  Every URL with a non-empty
\* identifier whose loop iteration is over has had exactly one extractor
\* invocation, in order, whatever the earlier invocations did; and when
\* exactly the k-th of the N invocations failed generically and all others
\* succeeded, the records at export are the N - 1 records of the others.
C1_FailureIsolation ==
    LET targets == SelectSeq(Processed, HasIdentifier)
    IN  /\ Len(calls) = Len(targets)
        /\ \A i \in 1 .. Len(calls) : SameBatchUrl(calls[i], targets[i])
        /\ pc \in {"export", "done"} =>
              \A k \in 1 .. Len(calls) :
                 (/\ calls[k].result = "fail"
                  /\ \A j \in 1 .. Len(calls) : j # k => calls[j].result = "ok")
                 => /\ Len(rows) = Len(targets) - 1
                    /\ rows = RowsOf(Without(calls, k))

\* C1 witness: a finished run of three or more URLs in which exactly one
\* extraction, not the last, failed generically.
C1_Witness ==
    /\ pc = "done"
    /\ Len(calls) >= 3
    /\ \E k \in 1 .. (Len(calls) - 1) :
          /\ calls[k].result = "fail"
          /\ \A j \in 1 .. Len(calls) : j # k => calls[j].result = "ok"
    /\ Len(rows) = Len(calls) - 1

C3_SearchFailureNotFatal == pc # "crashed"

FirstIndex(s, u) == CHOOSE i \in 1 .. Len(s) : s[i] = u /\ \A j \in 1 .. (i - 1) : s[j] # u

RECURSIVE Concat(_)
Concat(ss) == IF ss = <<>> THEN <<>> ELSE Head(ss) \o Concat(Tail(ss))

\* out holds every element of all exactly once, in the order of first occurrence
FirstSeenWins(out, all) ==
    /\ Range(out) = Range(all)
    /\ \A u \in Range(all) : Cardinality({k \in 1 .. Len(out) : out[k] = u}) = 1
    /\ \A i, j \in 1 .. Len(out) :
          i < j => FirstIndex(all, out[i]) < FirstIndex(all, out[j])

\* C4: discover_profiles returns every URL of any term's result exactly once,
\* ordered by first occurrence in the concatenation of the per-term results
\* taken in term order.
C4_AggregationDedup ==
    [][pc = "dedup" => FirstSeenWins(urls', Concat(found))]_vars

\* C4 witness: the keyword loop is over and two terms surfaced the same URL,
\* the second term also a URL the first did not.
C4_Witness ==
    /\ pc = "dedup" /\ Len(found) = 2
    /\ Range(found[1]) \cap Range(found[2]) # {}
    /\ Range(found[2]) \ Range(found[1]) # {}
    /\ Len(found[1]) = 2

NoQuery(u) == SubSeq(u, 1, IndexOf(u, {"?", "#"}, 1) - 1)

\* a raw URL without its scheme
NoScheme(u) == IF Len(u) >= 2 /\ u[2] = ":" THEN SubSeq(u, 3, Len(u)) ELSE u

RECURSIVE NoTrailingSlash(_)
NoTrailingSlash(u) ==
    IF u # <<>> /\ u[Len(u)] = "/" THEN NoTrailingSlash(SubSeq(u, 1, Len(u) - 1)) ELSE u

\* u and v differ at most in scheme, trailing slash and query string
SameButSchemeSlashQuery(u, v) ==
    NoScheme(NoTrailingSlash(NoQuery(u))) = NoScheme(NoTrailingSlash(NoQuery(v)))

\* u and v differ at most in trailing slash and query string
SameButSlashQuery(u, v) == NoTrailingSlash(NoQuery(u)) = NoTrailingSlash(NoQuery(v))

\* what the running search_social_links call returns
Returned == IF mode = "city" THEN found'[Len(found')] ELSE urls'

\* the hits i and j of the response are normalised to one Profile URL, which
\* the returned list holds once
OneEntry(i, j) ==
    /\ cleaned(HitUrl(results[i])) = cleaned(HitUrl(results[j]))
    /\ Cardinality({k \in 1 .. Len(Returned) :
                       Returned[k] \in {cleaned(HitUrl(results[i])),
                                        cleaned(HitUrl(results[j]))}}) = 1

Kept(i) == PlatformIn(platforms[pi], HitUrl(results[i]))

\* C6 as claimed: two hits that differ only in scheme, trailing slash or
\* query string are normalised to the same Profile URL and yield one entry.
C6_SchemeSlashQuery ==
    [][pc = "searched" =>
          \A i, j \in 1 .. Len(results) :
             (Kept(i) /\ Kept(j)
              /\ SameButSchemeSlashQuery(HitUrl(results[i]), HitUrl(results[j])))
             => OneEntry(i, j)]_vars

\* C6 amended: two hits that differ only in trailing slash or query string
\* are normalised to the same Profile URL and yield one entry; the scheme is
\* kept, so hits that differ in scheme stay apart.
C6_SlashQuery ==
    [][pc = "searched" =>
          \A i, j \in 1 .. Len(results) :
             (Kept(i) /\ Kept(j)
              /\ SameButSlashQuery(HitUrl(results[i]), HitUrl(results[j])))
             => OneEntry(i, j)]_vars

\* C6 witness: a response whose two hits differ in trailing slash and in
\* query string, and in nothing else.
C6_Witness ==
    /\ pc = "searched" /\ Len(results) = 2
    /\ Kept(1) /\ Kept(2)
    /\ HitUrl(results[1]) # HitUrl(results[2])
    /\ NoQuery(HitUrl(results[1])) # NoQuery(HitUrl(results[2]))
    /\ HitUrl(results[1]) # NoQuery(HitUrl(results[1]))
    /\ SameButSlashQuery(HitUrl(results[1]), HitUrl(results[2]))

\* C7: the output file is written only if at least one record was
\* accumulated; a run that ends without records has written nothing.
C7_NoWriteWithoutRecords ==
    /\ written # <<>> => (rows # <<>> /\ pc = "done" /\ Len(written) = 1)
    /\ (pc = "done" /\ rows = <<>>) => written = <<>>
    /\ (pc = "done" /\ rows # <<>>) => written # <<>>

\* C7 witness: a run in which URLs were dispatched and every extraction
\* failed or was skipped ends normally without a file.
C7_Witness ==
    /\ pc = "done" /\ rows = <<>> /\ written = <<>>
    /\ calls # <<>>
    /\ \E i \in 1 .. Len(queue) : ~HasIdentifier(queue[i])

\* the tokens of a Profile URL after scheme and host
PathOf(url) == SubSeq(url, 6, Len(url))

\* C8: every extractor invocation receives a non-empty identifier, the first
\* non-empty path segment of its URL; a URL without one is never extracted
\* and adds no record.
C8_NoEmptyIdentifier ==
    /\ \A i \in 1 .. Len(calls) :
          /\ calls[i].username # <<>>
          /\ \E k \in 1 .. Len(PathOf(calls[i].url)) :
                /\ PathOf(calls[i].url)[k] # "/"
                /\ \A j \in 1 .. (k - 1) : PathOf(calls[i].url)[j] = "/"
                /\ calls[i].username = <<PathOf(calls[i].url)[k]>>
    /\ Len(rows) <= Len(calls)

\* C8 witness: a finished run that dispatched a URL without identifier,
\* placed before a URL that was extracted.
C8_Witness ==
    /\ pc = "done"
    /\ \E i \in 1 .. (Len(queue) - 1) :
          /\ \A k \in 1 .. Len(PathOf(queue[i].url)) : PathOf(queue[i].url)[k] = "/"
          /\ queue[i + 1].term = queue[i].term
          /\ queue[i + 1].platform = queue[i].platform
          /\ \E c \in 1 .. Len(calls) : SameBatchUrl(calls[c], queue[i + 1])

\* C9: the table written has as header the sorted union of the keys of all
\* records, and one row per record in record order, a field absent from a
\* record being empty.
C9_TableShape ==
    \A t \in 1 .. Len(written) :
       LET header == written[t].header
           body == written[t].body
       IN  /\ Range(header) = UNION {DOMAIN rows[i] : i \in 1 .. Len(rows)}
           /\ \A a, b \in 1 .. Len(header) : a < b => StrLess(header[a], header[b])
           /\ Len(body) = Len(rows)
           /\ \A i \in 1 .. Len(rows) :
                 /\ Len(body[i]) = Len(header)
                 /\ \A k \in 1 .. Len(header) :
                       body[i][k] = IF header[k] \in DOMAIN rows[i]
                                    THEN rows[i][header[k]]
                                    ELSE <<>>

\* C9 witness: a table written from records of both shapes, the second
\* record lacking a field the first has and having one the first lacks.
C9_Witness ==
    /\ Len(written) = 1 /\ Len(rows) >= 2
    /\ DOMAIN rows[1] \ DOMAIN rows[2] # {}
    /\ DOMAIN rows[2] \ DOMAIN rows[1] # {}
    /\ Len(written[1].header) = Cardinality(DOMAIN rows[1] \cup DOMAIN rows[2])

\* C10 as claimed, for the runs that select a proxy (city mode): once the run
\* is set up one proxy of the pool is selected, and no outbound call of the
\* run is made without it.
C10_AllCallsProxied ==
    mode = "city" =>
       /\ pc # "start" => proxy \in proxy_links
       /\ ~direct

====
